---- MODULE Spec2Model ----
(***************************************************************************)
(* Task registry and background-job lifecycle of the vegetation            *)
(* segmentation API (backend/main.py).                                     *)
(*                                                                         *)
(* The server is one asyncio event loop.  A request handler or a           *)
(* background job owns the loop until it reaches an await that suspends.   *)
(* process_image_file and process_image_from_url are coroutines whose      *)
(* bodies only make blocking calls (requests.get, PIL, model.predict,      *)
(* cv2.imwrite); the single await, of process_image_file inside            *)
(* process_image_from_url, runs the awaited coroutine inline.  A job       *)
(* therefore holds the loop from its first statement to its return: the    *)
(* variable running names that job, and every handler is guarded by        *)
(* running = NoJob.  The upload handler suspends at aiofiles.open and at   *)
(* file.read / f.write / close, so other handlers and jobs run between     *)
(* those steps; a scheduled job starts after the response has been sent,   *)
(* which is another point where other handlers may run.                    *)
(***************************************************************************)
EXTENDS Integers, Sequences, FiniteSets, TLC

\* Number of task ids (uuid4 values) that submissions may allocate.
MaxTasks == 2

TaskIds == 1..MaxTasks

\* running = NoJob: no background job holds the event loop; otherwise running
\* is {t}, t the task whose job holds it.
NoJob == {}

\* Python's None as a value of a response field.
None == [null |-> TRUE]

Statuses == {"uploading", "queued", "downloading", "processing", "completed", "error"}

Terminal == {"completed", "error"}

\* requests.get(...) / response.raise_for_status() failures.
DownloadFailures == {"404 Client Error", "Read timed out"}

\* Vegetation percentages a segmentation may yield (abstracted mask statistic).
VegValues == {100}

\* The three artifacts, in the order process_image_file writes them.
ResultFiles == <<"result.png", "segmentation.png", "overlay.png">>

ResultFields == {"vegetation_percentage", "processing_time", "method",
                 "result_mask_url", "overlay_url", "segmentation_url",
                 "image_dimensions", "unique_classes"}

VARIABLES
    model,      \* the global model: "None" or "loaded"
    tasks,      \* the global dict tasks: task id -> task record (a dict)
    files,      \* files on disk: <<directory, task id, rest of the name>>
    next_id,    \* the next fresh task id (uuid4 never repeats)
    upload,     \* position of the upload handler of each task
    job,        \* background job of each task: position, kind, locals
    running,    \* {the task whose job holds the event loop}, or NoJob
    response    \* the last response to a submission or a delete request

\* One run of the segmentation pipeline (segment_image_with_patches and the
\* vegetation statistic of process_image_file) on one image.
VARIABLES
    stage,                  \* where the run is: "idle" when no run is followed
    image_shape,            \* <<height, width>> of the loaded image
    stub,                   \* the opaque model: which prediction it returns
    positions,              \* extract_patches: the tile origins, in order
    padded_shape,           \* extract_patches: <<h, w>> after padding
    predicted_masks,        \* one mask of class indices per tile
    full_mask,              \* the reconstructed mask
    vegetation_percentage   \* the statistic, in hundredths of a percent

pipeline == <<stage, image_shape, stub, positions, padded_shape,
              predicted_masks, full_mask, vegetation_percentage>>

service == <<model, tasks, files, next_id, upload, job, running, response>>

vars == <<service, pipeline>>

----------------------------------------------------------------------------
\* Helpers on dicts, messages and files.

Msg(text) == [text |-> text, cause |-> ""]

\* Mutant of ErrMsg: the message does not include str(e).
ErrMsg_withoutCause(prefix, e) == [text |-> prefix, cause |-> ""]

\* f"{prefix}{str(e)}"
ErrMsg(prefix, e) == [text |-> prefix, cause |-> e]

\* tasks[id] = rec
Put(d, id, rec) == [u \in DOMAIN d \cup {id} |-> IF u = id THEN rec ELSE d[u]]

\* del tasks[id]
Del(d, id) == [u \in DOMAIN d \ {id} |-> d[u]]

\* directory.glob(f"{task_id}_*") in one directory
GlobIn(dir, t) == {f \in files : f[1] = dir /\ f[2] = t}

\* Mutant of Glob: the loop forgets RESULTS_DIR.
Glob_uploadsOnly(t) == GlobIn("uploads", t)

\* for directory in [UPLOAD_DIR, RESULTS_DIR]: for file_path in directory.glob(..)
Glob(t) == GlobIn("uploads", t) \cup GlobIn("results", t)

\* The sets of files the loop can have unlinked when it ends or when an unlink
\* raises: uploads is emptied before results is touched; within a directory
\* glob yields the files in no particular order.
Unlinked(t) ==
    {g \in SUBSET Glob(t) :
        g \cap GlobIn("results", t) # {} => GlobIn("uploads", t) \subseteq g}

Resp(op, t, code) == [op |-> op, task |-> t, code |-> code]

NoneJob == [pc |-> "none", kind |-> "none", cause |-> "", veg |-> 0]

Scheduled(kind) == [pc |-> "pending", kind |-> kind, cause |-> "", veg |-> 0]

----------------------------------------------------------------------------
\* The task records the handlers and jobs write.

NewUploadTask(id) ==
    [task_id |-> id, status |-> "uploading", progress |-> 0,
     message |-> Msg("Uploading file..."), created_at |-> id]

NewUrlTask(id) ==
    [task_id |-> id, status |-> "queued", progress |-> 0,
     message |-> Msg("Task queued for processing..."), created_at |-> id]

\* Mutant of DownloadingUpdate: the progress assignment is missing.
DownloadingUpdate_noProgress(rec) ==
    [rec EXCEPT !.status = "downloading", !.message = Msg("Downloading image...")]

DownloadingUpdate(rec) ==
    [rec EXCEPT !.status = "downloading", !.progress = 10,
                !.message = Msg("Downloading image...")]

\* Mutant of ProcessingUpdate: the job marks the task queued again.
ProcessingUpdate_queued(rec) ==
    [rec EXCEPT !.status = "queued", !.progress = 30,
                !.message = Msg("Loading image...")]

ProcessingUpdate(rec) ==
    [rec EXCEPT !.status = "processing", !.progress = 30,
                !.message = Msg("Loading image...")]

SegmentingUpdate(rec) ==
    [rec EXCEPT !.progress = 50, !.message = Msg("Running segmentation...")]

GeneratingUpdate(rec) ==
    [rec EXCEPT !.progress = 80, !.message = Msg("Generating results...")]

Result(t, veg) ==
    [vegetation_percentage |-> veg,
     processing_time       |-> "elapsed",
     method                |-> "AI Model (7 classes)",
     result_mask_url       |-> <<"results", t, "result.png">>,
     overlay_url           |-> <<"results", t, "overlay.png">>,
     segmentation_url      |-> <<"results", t, "segmentation.png">>,
     image_dimensions      |-> "original_shape",
     unique_classes        |-> "unique"]

\* Mutant of CompletedUpdate: status, progress and message are written, the
\* result is not part of the same update.
CompletedUpdate_withoutResult(rec, t, veg) ==
    [rec EXCEPT !.status = "completed", !.progress = 100,
                !.message = Msg("Segmentation completed")]

\* tasks[task_id].update({...}): one dict.update call
CompletedUpdate(rec, t, veg) ==
    [status |-> "completed", progress |-> 100,
     message |-> Msg("Segmentation completed"),
     result |-> Result(t, veg)] @@ rec

\* Mutant of ErrorUpdate: the except branch also resets progress.
ErrorUpdate_resetsProgress(rec, prefix, e) ==
    [rec EXCEPT !.status = "error", !.progress = 0, !.message = ErrMsg(prefix, e)]

\* the two assignments of every except branch: status and message only
ErrorUpdate(rec, prefix, e) ==
    [rec EXCEPT !.status = "error", !.message = ErrMsg(prefix, e)]

\* Mutant of AfterCompleted: the logging after the final update raises, inside
\* the try block.
AfterCompleted_raises == "file_except"

\* The logging after the final update is inside the try block and does not raise.
AfterCompleted == "done"

----------------------------------------------------------------------------
\* No pipeline run is followed: the lifecycle of the tasks is.
NoRun ==
    /\ stage = "idle"
    /\ image_shape = <<0, 0>>
    /\ stub = "none"
    /\ positions = << >>
    /\ padded_shape = <<0, 0>>
    /\ predicted_masks = << >>
    /\ full_mask = << >>
    /\ vegetation_percentage = 0

\* The module globals after import, no request served yet.
NoTasks ==
    /\ model = "None"
    /\ tasks = [u \in {} |-> None]
    /\ files = {}
    /\ next_id = 1
    /\ upload = [t \in TaskIds |-> "none"]
    /\ job = [t \in TaskIds |-> NoneJob]
    /\ running = NoJob
    /\ response = Resp("none", 0, 0)

Init == NoTasks /\ NoRun

\* startup_event: load_model() succeeds and sets the global.  The server runs
\* the event before it serves the first request; a client that never runs it
\* (or a failed load_model, which re-raises) leaves model None.
startup_event ==
    /\ running = NoJob
    /\ model = "None"
    /\ next_id = 1
    /\ response.op = "none"
    /\ model' = "loaded"
    /\ UNCHANGED <<tasks, files, next_id, upload, job, running, response, pipeline>>

----------------------------------------------------------------------------
\* POST /segment/upload

\* Mutant of segment_uploaded_image: the threshold is validated after the
\* record has been created.
segment_uploaded_image_validatesLate(ext_ok, size_ok, thr_ok) ==
    /\ running = NoJob
    /\ IF ~ext_ok \/ ~size_ok
       THEN /\ response' = Resp("segment_uploaded_image", 0, 400)
            /\ UNCHANGED <<tasks, next_id, upload>>
       ELSE /\ next_id <= MaxTasks
            /\ tasks' = Put(tasks, next_id, NewUploadTask(next_id))
            /\ next_id' = next_id + 1
            /\ IF thr_ok
               THEN /\ upload' = [upload EXCEPT ![next_id] = "open"]
                    /\ UNCHANGED response
               ELSE /\ response' = Resp("segment_uploaded_image", 0, 400)
                    /\ UNCHANGED upload
    /\ UNCHANGED <<model, files, job, running, pipeline>>

\* Validation, then the record is created; the handler suspends at aiofiles.open.
segment_uploaded_image(ext_ok, size_ok, thr_ok) ==
    /\ running = NoJob
    /\ IF ~ext_ok \/ ~size_ok \/ ~thr_ok
       THEN /\ response' = Resp("segment_uploaded_image", 0, 400)
            /\ UNCHANGED <<tasks, next_id, upload>>
       ELSE /\ next_id <= MaxTasks
            /\ tasks' = Put(tasks, next_id, NewUploadTask(next_id))
            /\ upload' = [upload EXCEPT ![next_id] = "open"]
            /\ next_id' = next_id + 1
            /\ UNCHANGED response
    /\ UNCHANGED <<model, files, job, running, pipeline>>

\* except Exception of the handler: the record (if still there) becomes error,
\* the job is not scheduled, the client gets 500.
UploadExcept(t, e) ==
    /\ tasks' = IF t \in DOMAIN tasks
                THEN Put(tasks, t, ErrorUpdate(tasks[t], "Upload error: ", e))
                ELSE tasks
    /\ upload' = [upload EXCEPT ![t] = "none"]
    /\ response' = Resp("segment_uploaded_image", t, 500)
    /\ UNCHANGED job

\* aiofiles.open(file_path, 'wb'): creates uploads/<task_id>_<filename>
segment_uploaded_image_open(t, ok) ==
    /\ running = NoJob
    /\ upload[t] = "open"
    /\ IF ok
       THEN /\ files' = files \cup {<<"uploads", t, "upload">>}
            /\ upload' = [upload EXCEPT ![t] = "write"]
            /\ UNCHANGED <<tasks, job, response>>
       ELSE /\ UploadExcept(t, "No such file or directory")
            /\ UNCHANGED files
    /\ UNCHANGED <<model, next_id, running, pipeline>>

\* file.read(), f.write(content), close; then add_task and the response
segment_uploaded_image_write(t, ok) ==
    /\ running = NoJob
    /\ upload[t] = "write"
    /\ IF ok
       THEN /\ job' = [job EXCEPT ![t] = Scheduled("file")]
            /\ upload' = [upload EXCEPT ![t] = "none"]
            /\ response' = Resp("segment_uploaded_image", t, 200)
            /\ UNCHANGED tasks
       ELSE UploadExcept(t, "write failed")
    /\ UNCHANGED <<model, files, next_id, running, pipeline>>

----------------------------------------------------------------------------
\* POST /segment/url

segment_image_from_url(thr_ok) ==
    /\ running = NoJob
    /\ IF ~thr_ok
       THEN /\ response' = Resp("segment_image_from_url", 0, 422)
            /\ UNCHANGED <<tasks, next_id, job>>
       ELSE /\ next_id <= MaxTasks
            /\ tasks' = Put(tasks, next_id, NewUrlTask(next_id))
            /\ job' = [job EXCEPT ![next_id] = Scheduled("url")]
            /\ next_id' = next_id + 1
            /\ response' = Resp("segment_image_from_url", next_id, 200)
    /\ UNCHANGED <<model, files, upload, running, pipeline>>

----------------------------------------------------------------------------
\* GET /tasks/{task_id}, GET /tasks, DELETE /tasks/{task_id}

\* task_data.get("result")
GetResult(rec) == IF "result" \in DOMAIN rec THEN rec.result ELSE None

\* What GET /tasks/{task_id} returns in the current state: 404, or the body.
get_task_status_return(t) ==
    IF t \notin DOMAIN tasks
    THEN [code |-> 404]
    ELSE [code     |-> 200,
          task_id  |-> t,
          status   |-> tasks[t].status,
          progress |-> tasks[t].progress,
          message  |-> tasks[t].message,
          result   |-> GetResult(tasks[t])]

\* The handler has no await: it reads the registry in one piece and changes
\* nothing.
get_task_status(t) ==
    /\ running = NoJob
    /\ get_task_status_return(t).code \in {200, 404}
    /\ UNCHANGED vars

\* sort(key=created_at, reverse=True)
RECURSIVE SortedDesc(_)
SortedDesc(S) ==
    IF S = {} THEN << >>
    ELSE LET m == CHOOSE x \in S :
                    \A y \in S : tasks[y].created_at <= tasks[x].created_at
         IN  <<tasks[m]>> \o SortedDesc(S \ {m})

\* filtered_tasks[:limit]
Take(s, n) == SubSeq(s, 1, IF n < Len(s) THEN n ELSE Len(s))

\* What GET /tasks returns in the current state.
list_tasks_return(limit, status) ==
    LET filtered == {t \in DOMAIN tasks :
                        status = "None" \/ tasks[t].status = status}
    IN  Take(SortedDesc(filtered), limit)

\* limit and status values a client passes to GET /tasks
Limits == 1..MaxTasks

StatusFilters == {"None"} \cup Statuses

\* The handler has no await and changes nothing, whatever limit and status.
list_tasks ==
    /\ running = NoJob
    /\ \A limit \in Limits, status \in StatusFilters :
          Len(list_tasks_return(limit, status)) <= limit
    /\ UNCHANGED vars

\* Mutant of delete_task: deleting the record also drops its job when the job
\* has not started yet.
delete_task_cancels(t) ==
    /\ running = NoJob
    /\ IF t \notin DOMAIN tasks
       THEN /\ response' = Resp("delete_task", t, 404)
            /\ UNCHANGED <<tasks, files, job>>
       ELSE \E gone \in Unlinked(t) :
               /\ files' = files \ gone
               /\ IF gone = Glob(t)
                  THEN /\ tasks' = Del(tasks, t)
                       /\ job' = IF job[t].pc = "pending"
                                 THEN [job EXCEPT ![t] = NoneJob] ELSE job
                       /\ response' = Resp("delete_task", t, 200)
                  ELSE /\ tasks' = tasks
                       /\ job' = job
                       /\ response' = Resp("delete_task", t, 500)
    /\ UNCHANGED <<model, next_id, upload, running, pipeline>>

\* gone: the files unlinked when the loop ends (all of them) or when an unlink
\* raises (HTTP 500, the record stays)
delete_task(t) ==
    /\ running = NoJob
    /\ IF t \notin DOMAIN tasks
       THEN /\ response' = Resp("delete_task", t, 404)
            /\ UNCHANGED <<tasks, files>>
       ELSE \E gone \in Unlinked(t) :
               /\ files' = files \ gone
               /\ IF gone = Glob(t)
                  THEN /\ tasks' = Del(tasks, t)
                       /\ response' = Resp("delete_task", t, 200)
                  ELSE /\ tasks' = tasks
                       /\ response' = Resp("delete_task", t, 500)
    /\ UNCHANGED <<model, next_id, upload, job, running, pipeline>>

----------------------------------------------------------------------------
\* Background jobs.  A job step is enabled only for the job that holds the
\* loop; the first step takes the loop and the last one releases it.

\* the local e of an except branch, and where control goes next
Raise(t, pc, e) == [job EXCEPT ![t].pc = pc, ![t].cause = e]

Goto(t, pc) == [job EXCEPT ![t].pc = pc]

\* the job function is left (by return or by an exception): its locals are gone
Leave(t, pc) == [job EXCEPT ![t] = [NoneJob EXCEPT !.pc = pc]]

\* process_image_from_url, up to the download
process_image_from_url_start(t) ==
    /\ running = NoJob
    /\ job[t].pc = "pending"
    /\ job[t].kind = "url"
    /\ running' = {t}
    /\ IF model = "None"
       THEN /\ job' = Raise(t, "url_except", "Model not loaded")
            /\ UNCHANGED tasks
       ELSE IF t \notin DOMAIN tasks
       THEN /\ job' = Raise(t, "url_except", "KeyError")
            /\ UNCHANGED tasks
       ELSE /\ tasks' = Put(tasks, t, DownloadingUpdate(tasks[t]))
            /\ job' = Goto(t, "url_get")
    /\ UNCHANGED <<model, files, next_id, upload, response, pipeline>>

\* requests.get(str(url), timeout=30); response.raise_for_status()
process_image_from_url_get(t, outcome) ==
    /\ running = {t}
    /\ job[t].pc = "url_get"
    /\ job' = IF outcome = "ok" THEN Goto(t, "url_save")
              ELSE Raise(t, "url_except", outcome)
    /\ UNCHANGED <<model, tasks, files, next_id, upload, running, response, pipeline>>

\* open(input_path, "wb"); f.write(response.content); then the call of
\* process_image_file
process_image_from_url_save(t, ok) ==
    /\ running = {t}
    /\ job[t].pc = "url_save"
    /\ IF ok
       THEN /\ files' = files \cup {<<"uploads", t, "input">>}
            /\ job' = Goto(t, "file_start")
       ELSE /\ files' = files
            /\ job' = Raise(t, "url_except", "OSError")
    /\ UNCHANGED <<model, tasks, next_id, upload, running, response, pipeline>>

\* except Exception of process_image_from_url.  A missing record makes the
\* branch itself raise KeyError, which leaves the job function.
process_image_from_url_except(t) ==
    /\ running = {t}
    /\ job[t].pc = "url_except"
    /\ IF t \in DOMAIN tasks
       THEN /\ tasks' = Put(tasks, t,
                            ErrorUpdate(tasks[t], "Error processing URL: ", job[t].cause))
            /\ job' = Leave(t, "done")
       ELSE /\ tasks' = tasks
            /\ job' = Leave(t, "escaped")
    /\ running' = NoJob
    /\ UNCHANGED <<model, files, next_id, upload, response, pipeline>>

\* process_image_file, up to "Loading image...": started by the scheduler
\* (upload path) or called by process_image_from_url (URL path)
process_image_file_start(t) ==
    /\ IF job[t].kind = "file"
       THEN running = NoJob /\ job[t].pc = "pending"
       ELSE running = {t} /\ job[t].pc = "file_start"
    /\ running' = {t}
    /\ IF model = "None"
       THEN /\ job' = Raise(t, "file_except", "Model not loaded")
            /\ UNCHANGED tasks
       ELSE IF t \notin DOMAIN tasks
       THEN /\ job' = Raise(t, "file_except", "KeyError")
            /\ UNCHANGED tasks
       ELSE /\ tasks' = Put(tasks, t, ProcessingUpdate(tasks[t]))
            /\ job' = Goto(t, "file_load")
    /\ UNCHANGED <<model, files, next_id, upload, response, pipeline>>

\* Mutant of process_image_file_load: the image is loaded in a worker thread
\* and the job gives the event loop away while it waits.
process_image_file_load_awaits(t, ok) ==
    /\ job[t].pc = "file_load"
    /\ running \in {NoJob, {t}}
    /\ IF ~ok
       THEN /\ job' = Raise(t, "file_except", "cannot identify image file")
            /\ running' = {t}
            /\ UNCHANGED tasks
       ELSE IF t \notin DOMAIN tasks
       THEN /\ job' = Raise(t, "file_except", "KeyError")
            /\ running' = {t}
            /\ UNCHANGED tasks
       ELSE /\ tasks' = Put(tasks, t, SegmentingUpdate(tasks[t]))
            /\ job' = Goto(t, "file_segment")
            /\ running' = NoJob
    /\ UNCHANGED <<model, files, next_id, upload, response, pipeline>>

\* rasterio.open / Image.open, then progress 50
process_image_file_load(t, ok) ==
    /\ running = {t}
    /\ job[t].pc = "file_load"
    /\ IF ~ok
       THEN /\ job' = Raise(t, "file_except", "cannot identify image file")
            /\ UNCHANGED tasks
       ELSE IF t \notin DOMAIN tasks
       THEN /\ job' = Raise(t, "file_except", "KeyError")
            /\ UNCHANGED tasks
       ELSE /\ tasks' = Put(tasks, t, SegmentingUpdate(tasks[t]))
            /\ job' = Goto(t, "file_segment")
    /\ UNCHANGED <<model, files, next_id, upload, running, response, pipeline>>

\* segment_image_with_patches and the binary mask, then progress 80
process_image_file_segment(t, ok, veg) ==
    /\ running = {t}
    /\ job[t].pc = "file_segment"
    /\ IF ~ok
       THEN /\ job' = Raise(t, "file_except", "segmentation failed")
            /\ UNCHANGED tasks
       ELSE IF t \notin DOMAIN tasks
       THEN /\ job' = Raise(t, "file_except", "KeyError")
            /\ UNCHANGED tasks
       ELSE /\ tasks' = Put(tasks, t, GeneratingUpdate(tasks[t]))
            /\ job' = [job EXCEPT ![t].pc = "file_results", ![t].veg = veg]
    /\ UNCHANGED <<model, files, next_id, upload, running, response, pipeline>>

\* The artifacts are written in order; n of them are on disk when the step
\* ends.  With all of them written the record is updated and the job returns.
process_image_file_results(t, n) ==
    /\ running = {t}
    /\ job[t].pc = "file_results"
    /\ files' = files \cup {<<"results", t, ResultFiles[i]>> : i \in 1..n}
    /\ IF n < Len(ResultFiles)
       THEN /\ job' = Raise(t, "file_except", "could not write results")
            /\ UNCHANGED <<tasks, running>>
       ELSE IF t \notin DOMAIN tasks
       THEN /\ job' = Raise(t, "file_except", "KeyError")
            /\ UNCHANGED <<tasks, running>>
       ELSE /\ tasks' = Put(tasks, t, CompletedUpdate(tasks[t], t, job[t].veg))
            /\ job' = IF AfterCompleted = "done" THEN Leave(t, "done")
                      ELSE Raise(t, AfterCompleted, "logging failed")
            /\ running' = IF AfterCompleted = "done" THEN NoJob ELSE {t}
    /\ UNCHANGED <<model, next_id, upload, response, pipeline>>

\* except Exception of process_image_file.  A missing record makes the branch
\* raise KeyError: into process_image_from_url's try on the URL path, out of
\* the job on the upload path.
process_image_file_except(t) ==
    /\ running = {t}
    /\ job[t].pc = "file_except"
    /\ IF t \in DOMAIN tasks
       THEN /\ tasks' = Put(tasks, t,
                            ErrorUpdate(tasks[t], "Processing error: ", job[t].cause))
            /\ job' = Leave(t, "done")
            /\ running' = NoJob
       ELSE /\ tasks' = tasks
            /\ job' = IF job[t].kind = "url" THEN Raise(t, "url_except", "KeyError")
                      ELSE Leave(t, "escaped")
            /\ running' = IF job[t].kind = "url" THEN {t} ELSE NoJob
    /\ UNCHANGED <<model, files, next_id, upload, response, pipeline>>

----------------------------------------------------------------------------
Next ==
    \/ startup_event
    \/ \E e, s, th \in BOOLEAN : segment_uploaded_image(e, s, th)
    \/ \E t \in TaskIds, ok \in BOOLEAN : segment_uploaded_image_open(t, ok)
    \/ \E t \in TaskIds, ok \in BOOLEAN : segment_uploaded_image_write(t, ok)
    \/ \E th \in BOOLEAN : segment_image_from_url(th)
    \/ \E t \in TaskIds : get_task_status(t)
    \/ list_tasks
    \/ \E t \in TaskIds : delete_task(t)
    \/ \E t \in TaskIds : process_image_from_url_start(t)
    \/ \E t \in TaskIds, o \in {"ok"} \cup DownloadFailures :
          process_image_from_url_get(t, o)
    \/ \E t \in TaskIds, ok \in BOOLEAN : process_image_from_url_save(t, ok)
    \/ \E t \in TaskIds : process_image_from_url_except(t)
    \/ \E t \in TaskIds : process_image_file_start(t)
    \/ \E t \in TaskIds, ok \in BOOLEAN : process_image_file_load(t, ok)
    \/ \E t \in TaskIds, ok \in BOOLEAN, v \in VegValues :
          process_image_file_segment(t, ok, v)
    \/ \E t \in TaskIds, n \in 0..Len(ResultFiles) : process_image_file_results(t, n)
    \/ \E t \in TaskIds : process_image_file_except(t)

Spec == Init /\ [][Next]_vars

\* A step of the job of task t.
JobStep(t) ==
    \/ process_image_from_url_start(t)
    \/ \E o \in {"ok"} \cup DownloadFailures : process_image_from_url_get(t, o)
    \/ \E ok \in BOOLEAN : process_image_from_url_save(t, ok)
    \/ process_image_from_url_except(t)
    \/ process_image_file_start(t)
    \/ \E ok \in BOOLEAN : process_image_file_load(t, ok)
    \/ \E ok \in BOOLEAN, v \in VegValues : process_image_file_segment(t, ok, v)
    \/ \E n \in 0..Len(ResultFiles) : process_image_file_results(t, n)
    \/ process_image_file_except(t)

\* The event loop keeps running background jobs: while some job can take a
\* step (a scheduled one can start, the running one can go on: its blocking
\* calls return or raise, the download has a timeout), a job step is taken.
FairSpec == Spec /\ WF_vars(\E t \in TaskIds : JobStep(t))

----------------------------------------------------------------------------
\* The segmentation pipeline: extract_patches, model.predict,
\* reconstruct_from_patches, the crop and the vegetation statistic.  An image
\* is its shape <<h, w>>; a pixel is <<row, column>>, counted from 0; a mask is
\* a function from pixels to class indices.  The model is opaque: stub names
\* the prediction it returns.

\* Side of a tile (PATCH_SIZE is 512 in the source; scaled down).
PATCH_SIZE == 3

\* Largest height and width of an image.
MaxSide == 8

\* Number of classes of the model: np.argmax(predictions, axis=-1) is in
\* 0..N_CLASSES-1.
N_CLASSES == 7

Classes == 0..(N_CLASSES - 1)

VEGETATION_CLASSES == {1, 2, 3, 4, 5, 6}

Shapes == (1..MaxSide) \X (1..MaxSide)

\* What the opaque model may predict: one class everywhere; one class per
\* tile, by the tile's place in the batch; a class by the pixel's place in the
\* image (overlapping tiles agree); a class by the pixel's place in the tile
\* (overlapping tiles disagree).
Stubs == [kind : {"constant", "by_tile", "by_pixel", "by_offset"}, c : Classes]

Max(a, b) == IF a >= b THEN a ELSE b

Min(a, b) == IF a <= b THEN a ELSE b

\* range(0, stop, stride) as a sequence
Range0(stop, stride) ==
    [i \in 1..(IF stop <= 0 THEN 0 ELSE (stop + stride - 1) \div stride)
        |-> (i - 1) * stride]

\* the pixels of an array of that shape
Pixels(shape) == (0..(shape[1] - 1)) \X (0..(shape[2] - 1))

\* the pixels of the slice [y:y + patch_size, x:x + patch_size]
TilePixels(origin, patch_size) ==
    (origin[1]..(origin[1] + patch_size - 1))
        \X (origin[2]..(origin[2] + patch_size - 1))

\* Mutant of Pad: the image is never padded.
Pad_never(shape, patch_size) == shape

\* np.pad(image, ((0, pad_h), (0, pad_w), (0, 0)), mode='reflect') when a side
\* is smaller than patch_size: the shape after it
Pad(shape, patch_size) ==
    IF shape[1] < patch_size \/ shape[2] < patch_size
    THEN <<shape[1] + Max(0, patch_size - shape[1]),
           shape[2] + Max(0, patch_size - shape[2])>>
    ELSE shape

\* Mutant of Stride: neighbouring tiles overlap by one pixel.
Stride_overlapping(patch_size) == patch_size - 1

\* stride = patch_size
Stride(patch_size) == patch_size

\* Mutant of PrimaryTiles: the sweep is column-major.
PrimaryTiles_columnMajor(h, w, patch_size) ==
    LET ys == Range0(h - patch_size + 1, Stride(patch_size))
        xs == Range0(w - patch_size + 1, Stride(patch_size))
    IN  [k \in 1..(Len(ys) * Len(xs)) |->
            <<ys[((k - 1) % Len(ys)) + 1], xs[((k - 1) \div Len(ys)) + 1]>>]

\* for y in range(..): for x in range(..): positions.append((y, x))
PrimaryTiles(h, w, patch_size) ==
    LET ys == Range0(h - patch_size + 1, Stride(patch_size))
        xs == Range0(w - patch_size + 1, Stride(patch_size))
    IN  [k \in 1..(Len(ys) * Len(xs)) |->
            <<ys[((k - 1) \div Len(xs)) + 1], xs[((k - 1) % Len(xs)) + 1]>>]

\* if (y, x) not in positions: positions.append((y, x)), for each origin of
\* more, in order
RECURSIVE AppendNew(_, _)
AppendNew(pos, more) ==
    IF more = << >> THEN pos
    ELSE AppendNew(IF \E i \in 1..Len(pos) : pos[i] = Head(more)
                   THEN pos ELSE Append(pos, Head(more)),
                   Tail(more))

\* if h % patch_size != 0: the row of tiles at y = h - patch_size
BottomRow(pos, h, w, patch_size) ==
    IF h % patch_size # 0
    THEN LET xs == Range0(w - patch_size + 1, Stride(patch_size))
         IN  AppendNew(pos, [i \in 1..Len(xs) |-> <<h - patch_size, xs[i]>>])
    ELSE pos

\* if w % patch_size != 0: the column of tiles at x = w - patch_size
RightColumn(pos, h, w, patch_size) ==
    IF w % patch_size # 0
    THEN LET ys == Range0(h - patch_size + 1, Stride(patch_size))
         IN  AppendNew(pos, [i \in 1..Len(ys) |-> <<ys[i], w - patch_size>>])
    ELSE pos

\* Mutant of Corner: the bottom-right corner tile is forgotten.
Corner_never(pos, h, w, patch_size) == pos

\* if h % patch_size != 0 and w % patch_size != 0: the corner tile
Corner(pos, h, w, patch_size) ==
    IF h % patch_size # 0 /\ w % patch_size # 0
    THEN AppendNew(pos, << <<h - patch_size, w - patch_size>> >>)
    ELSE pos

\* extract_patches(image, patch_size): positions and the padded shape (the
\* patches are the slices of the image at the positions)
extract_patches(shape, patch_size) ==
    LET padded == Pad(shape, patch_size)
        h == padded[1]
        w == padded[2]
    IN  [positions |->
            Corner(RightColumn(BottomRow(PrimaryTiles(h, w, patch_size),
                                         h, w, patch_size),
                               h, w, patch_size),
                   h, w, patch_size),
         padded_shape |-> padded]

\* np.argmax(model.predict(patches), axis=-1): the mask of the i-th tile, a
\* function of the offset in the tile
Predict(st, i, origin, patch_size) ==
    [d \in Pixels(<<patch_size, patch_size>>) |->
        CASE st.kind = "constant"  -> st.c
          [] st.kind = "by_tile"   -> (i + st.c) % N_CLASSES
          [] st.kind = "by_pixel"  -> (origin[1] + d[1] + origin[2] + d[2] + st.c) % N_CLASSES
          [] st.kind = "by_offset" -> (d[1] * patch_size + d[2] + st.c) % N_CLASSES]

\* for pred, (y, x) in zip(predictions, positions): the two += of the k-th
\* and the later pairs
RECURSIVE Accumulate(_, _, _, _, _)
Accumulate(acc, predictions, pos, k, patch_size) ==
    IF k > Min(Len(predictions), Len(pos)) THEN acc
    ELSE LET tile == TilePixels(pos[k], patch_size)
         IN  Accumulate(
                [output_mask |->
                    [p \in DOMAIN acc.output_mask |->
                        IF p \in tile
                        THEN acc.output_mask[p]
                                + predictions[k][<<p[1] - pos[k][1], p[2] - pos[k][2]>>]
                        ELSE acc.output_mask[p]],
                 count_mask |->
                    [p \in DOMAIN acc.count_mask |->
                        IF p \in tile THEN acc.count_mask[p] + 1
                        ELSE acc.count_mask[p]]],
                predictions, pos, k + 1, patch_size)

\* Mutant of Average: the sum is not divided by the count.
Average_sumOnly(sum, count) == sum % 256

\* (output_mask / np.maximum(count_mask, 1)).astype(np.uint8): the float
\* quotient is cut to its integer part
Average(sum, count) == (sum \div Max(count, 1)) % 256

\* reconstruct_from_patches(predictions, positions, original_shape, patch_size)
reconstruct_from_patches(predictions, pos, original_shape, patch_size) ==
    LET zeros == [p \in Pixels(original_shape) |-> 0]
        acc == Accumulate([output_mask |-> zeros, count_mask |-> zeros],
                          predictions, pos, 1, patch_size)
    IN  [p \in Pixels(original_shape) |->
            Average(acc.output_mask[p], acc.count_mask[p])]

\* full_mask[:original_shape[0], :original_shape[1]]
Crop(mask, shape) == [p \in DOMAIN mask \cap Pixels(shape) |-> mask[p]]

\* Mutant of BinaryValue: the statistic is taken from the mask as it is
\* written to disk (0 or 255).
BinaryValue_255(class) == IF class \in VEGETATION_CLASSES THEN 255 ELSE 0

\* np.isin(segmentation_mask, VEGETATION_CLASSES).astype(np.float32)
BinaryValue(class) == IF class \in VEGETATION_CLASSES THEN 1 ELSE 0

\* binary_mask.sum()
RECURSIVE SumOver(_, _)
SumOver(f, S) ==
    IF S = {} THEN 0
    ELSE LET p == CHOOSE q \in S : TRUE
         IN  f[p] + SumOver(f, S \ {p})

\* round(n / d): to the nearest integer, halves to the even one
RoundHalfEven(n, d) ==
    LET q == n \div d
        r == n % d
    IN  IF 2 * r < d THEN q
        ELSE IF 2 * r > d THEN q + 1
        ELSE IF q % 2 = 0 THEN q ELSE q + 1

\* round((binary_mask.sum() / binary_mask.size) * 100, 2), in hundredths of a
\* percent
VegetationPercentage(mask) ==
    LET binary_mask == [p \in DOMAIN mask |-> BinaryValue(mask[p])]
    IN  RoundHalfEven(SumOver(binary_mask, DOMAIN mask) * 10000,
                      Cardinality(DOMAIN mask))

\* A run starts with an image of any shape and any model.
PipelineInit ==
    /\ NoTasks
    /\ stage = "extract"
    /\ image_shape \in Shapes
    /\ stub \in Stubs
    /\ positions = << >>
    /\ padded_shape = <<0, 0>>
    /\ predicted_masks = << >>
    /\ full_mask = << >>
    /\ vegetation_percentage = 0

\* patches, positions, padded_shape = extract_patches(preprocessed_image, patch_size)
segment_image_with_patches_extract ==
    /\ stage = "extract"
    /\ positions' = extract_patches(image_shape, PATCH_SIZE).positions
    /\ padded_shape' = extract_patches(image_shape, PATCH_SIZE).padded_shape
    /\ stage' = "predict"
    /\ UNCHANGED <<image_shape, stub, predicted_masks, full_mask,
                   vegetation_percentage, service>>

\* predictions = model.predict(patches, ...); predicted_masks = np.argmax(...)
segment_image_with_patches_predict ==
    /\ stage = "predict"
    /\ predicted_masks' =
          [i \in 1..Len(positions) |-> Predict(stub, i, positions[i], PATCH_SIZE)]
    /\ stage' = "reconstruct"
    /\ UNCHANGED <<image_shape, stub, positions, padded_shape, full_mask,
                   vegetation_percentage, service>>

\* full_mask = reconstruct_from_patches(predicted_masks, positions, padded_shape, patch_size)
segment_image_with_patches_reconstruct ==
    /\ stage = "reconstruct"
    /\ full_mask' = reconstruct_from_patches(predicted_masks, positions,
                                             padded_shape, PATCH_SIZE)
    /\ stage' = "crop"
    /\ UNCHANGED <<image_shape, stub, positions, padded_shape, predicted_masks,
                   vegetation_percentage, service>>

\* full_mask = full_mask[:original_shape[0], :original_shape[1]]; return
segment_image_with_patches_crop ==
    /\ stage = "crop"
    /\ full_mask' = Crop(full_mask, image_shape)
    /\ stage' = "statistic"
    /\ UNCHANGED <<image_shape, stub, positions, padded_shape, predicted_masks,
                   vegetation_percentage, service>>

\* binary_mask and vegetation_percentage of process_image_file
process_image_file_statistic ==
    /\ stage = "statistic"
    /\ vegetation_percentage' = VegetationPercentage(full_mask)
    /\ stage' = "done"
    /\ UNCHANGED <<image_shape, stub, positions, padded_shape, predicted_masks,
                   full_mask, service>>

\* The same image is segmented once more (a second task on it); what the
\* first call returned stays in view until the second call overwrites it.
segment_image_with_patches_again ==
    /\ stage = "done"
    /\ stage' = "extract"
    /\ UNCHANGED <<image_shape, stub, positions, padded_shape, predicted_masks,
                   full_mask, vegetation_percentage, service>>

PipelineNext ==
    \/ segment_image_with_patches_extract
    \/ segment_image_with_patches_predict
    \/ segment_image_with_patches_reconstruct
    \/ segment_image_with_patches_crop
    \/ process_image_file_statistic
    \/ segment_image_with_patches_again

PipelineSpec == PipelineInit /\ [][PipelineNext]_vars

----------------------------------------------------------------------------
\* Properties.

\* the files named <task_id>_* on disk, in any directory
FilesOf(t) == {f \in files : f[2] = t}

JobEnded == {"done", "escaped"}

\* the step in which the job of t leaves its function
JobEnds(t) == job[t].pc \notin JobEnded \cup {"none"} /\ job'[t].pc \in JobEnded

\* C1: once a record is completed or error, no step changes it (status and
\* every other field stay as they are); the only step that touches it is a
\* successful delete_task of that id, which removes it.
C1_TerminalIsFinal ==
    [][\A t \in DOMAIN tasks :
          tasks[t].status \in Terminal =>
             IF t \in DOMAIN tasks'
             THEN tasks'[t] = tasks[t]
             ELSE response' = Resp("delete_task", t, 200)]_vars

\* A completed record while the job of another task holds the loop.
C1_Witness ==
    \E t \in DOMAIN tasks :
       /\ tasks[t].status = "completed"
       /\ running \notin {NoJob, {t}}

\* The order of section 4.5's state line: uploading|downloading, queued,
\* processing, completed|error.
SpecRank(s) ==
    CASE s \in {"uploading", "downloading"} -> 0
      [] s = "queued" -> 1
      [] s = "processing" -> 2
      [] OTHER -> 3

\* The order the transitions of both paths follow: uploading|queued,
\* downloading, processing, completed|error.
PathRank(s) ==
    CASE s \in {"uploading", "queued"} -> 0
      [] s = "downloading" -> 1
      [] s = "processing" -> 2
      [] OTHER -> 3

\* C2 as claimed: ranked uploading/downloading, queued, processing,
\* completed/error, no status change of a record goes to an earlier rank.
C2_SpecOrderNeverBackward ==
    [][\A t \in DOMAIN tasks \cap DOMAIN tasks' :
          SpecRank(tasks'[t].status) >= SpecRank(tasks[t].status)]_vars

\* C2 amended: ranked uploading/queued, downloading, processing,
\* completed/error, no status change of a record goes to an earlier rank.
C2_StatusNeverMovesBack ==
    [][\A t \in DOMAIN tasks \cap DOMAIN tasks' :
          PathRank(tasks'[t].status) >= PathRank(tasks[t].status)]_vars

\* A URL task that went queued, downloading, processing.
C2_Witness ==
    \E t \in DOMAIN tasks :
       /\ job[t].kind = "url"
       /\ tasks[t].status = "processing"
       /\ <<"uploads", t, "input">> \in files

ProgressValues == {0, 10, 30, 50, 80, 100}

\* C3: the progress of a record never decreases and is one of 0, 10, 30, 50,
\* 80, 100; a step that moves a record to error leaves its progress as it was.
C3_ProgressMonotone ==
    [][\A t \in DOMAIN tasks \cap DOMAIN tasks' :
          /\ tasks'[t].progress \in ProgressValues
          /\ tasks'[t].progress >= tasks[t].progress
          /\ (tasks'[t].status = "error" /\ tasks[t].status # "error"
                => tasks'[t].progress = tasks[t].progress)]_vars

\* A record that failed during segmentation: error, progress frozen at 50.
C3_Witness ==
    \E t \in DOMAIN tasks :
       /\ tasks[t].status = "error"
       /\ tasks[t].progress = 50
       /\ tasks[t].message = ErrMsg("Processing error: ", "segmentation failed")

Paired(status, progress) ==
    /\ status \in {"uploading", "queued"} => progress = 0
    /\ status = "downloading" => progress = 10
    /\ status = "processing" => progress \in {30, 50, 80}
    /\ status = "completed" => progress = 100

\* C4: whatever get_task_status and list_tasks return, status and progress are
\* paired (uploading/queued 0, downloading 10, processing 30/50/80, completed
\* 100), and a URL task becomes processing only from downloading.
C4_StatusProgressPaired ==
    /\ [](\A t \in TaskIds :
            /\ get_task_status_return(t).code = 200 =>
                  Paired(get_task_status_return(t).status,
                         get_task_status_return(t).progress)
            /\ \A i \in 1..Len(list_tasks_return(MaxTasks, "None")) :
                  Paired(list_tasks_return(MaxTasks, "None")[i].status,
                         list_tasks_return(MaxTasks, "None")[i].progress))
    /\ [][\A t \in DOMAIN tasks \cap DOMAIN tasks' :
            (/\ job[t].kind = "url"
             /\ tasks'[t].status = "processing"
             /\ tasks[t].status # "processing") => tasks[t].status = "downloading"]_vars

\* A poll of a URL task after its job: completed with progress 100, the
\* downloaded input on disk.
C4_Witness ==
    \E t \in TaskIds :
       /\ running = NoJob
       /\ get_task_status_return(t).code = 200
       /\ get_task_status_return(t).status = "completed"
       /\ get_task_status_return(t).progress = 100
       /\ <<"uploads", t, "input">> \in files

\* C5: what a reader gets carries a result exactly when the status is
\* completed; the result then has every field and comes with progress 100; an
\* error record has no result.
C5_ResultWholeOrAbsent ==
    \A t \in TaskIds :
       LET r == get_task_status_return(t) IN
       r.code = 200 =>
          /\ (r.result # None) <=> (r.status = "completed")
          /\ ("result" \in DOMAIN tasks[t]) <=> (r.status = "completed")
          /\ r.status = "completed" =>
                /\ DOMAIN r.result = ResultFields
                /\ r.result = Result(t, r.result.vegetation_percentage)
                /\ r.progress = 100
          /\ r.status = "error" => r.result = None

\* A poll that returns a completed task with its whole result.
C5_Witness ==
    \E t \in TaskIds :
       /\ running = NoJob
       /\ get_task_status_return(t).code = 200
       /\ get_task_status_return(t).status = "completed"
       /\ DOMAIN get_task_status_return(t).result = ResultFields

\* C6 as claimed: no exception leaves a job function.
C6_NoExceptionEscapesJob ==
    \A t \in TaskIds : job[t].pc # "escaped"

FatalCauses == DownloadFailures \cup {"Model not loaded"}

C9_RequestsServedDuringJob ==
    running # NoJob =>
       /\ ENABLED (\E t \in TaskIds : get_task_status(t))
       /\ ENABLED list_tasks
       /\ ENABLED (\E t \in TaskIds : delete_task(t))

\* the step is a delete_task(t) step (the cheap test first)
IsDelete(t) == response'.op = "delete_task" /\ response'.task = t /\ delete_task(t)

\* C10 as claimed: a record leaves the registry only in a delete_task step;
\* delete_task of an existing id removes the record and all its files;
\* delete_task of an unknown id answers 404 and changes nothing.
C10_DeleteAlwaysRemoves ==
    [][\A t \in TaskIds :
          /\ (t \in DOMAIN tasks /\ t \notin DOMAIN tasks') => delete_task(t)
          /\ (t \in DOMAIN tasks /\ IsDelete(t)) =>
                /\ t \notin DOMAIN tasks'
                /\ FilesOf(t)' = {}
          /\ (t \notin DOMAIN tasks /\ IsDelete(t)) =>
                /\ response'.code = 404
                /\ tasks' = tasks
                /\ files' = files]_vars

\* C10 amended: a record leaves the registry only in a delete_task step;
\* delete_task of an existing id either answers 200, having removed the record
\* and all its files and nothing else, or answers 500 because a file removal
\* raised, leaving the registry as it was and no file added; delete_task of an
\* unknown id answers 404 and changes nothing.
C10_DeleteOutcomes ==
    [][\A t \in TaskIds :
          /\ (t \in DOMAIN tasks /\ t \notin DOMAIN tasks') => delete_task(t)
          /\ (t \in DOMAIN tasks /\ IsDelete(t)) =>
                \/ /\ response'.code = 200
                   /\ tasks' = Del(tasks, t)
                   /\ files' = files \ FilesOf(t)
                \/ /\ response'.code = 500
                   /\ tasks' = tasks
                   /\ files' \subseteq files
                   /\ files \ files' \subseteq FilesOf(t)
                   /\ FilesOf(t)' # {}
          /\ (t \notin DOMAIN tasks /\ IsDelete(t)) =>
                /\ response'.code = 404
                /\ tasks' = tasks
                /\ files' = files]_vars

\* A finished task deleted with 200, record and files gone, while another,
\* completed task survived a delete_task that answered 500 after removing
\* all its files but one.
C10_Witness ==
    \E t, u \in TaskIds :
       /\ response = Resp("delete_task", t, 200)
       /\ t < next_id
       /\ t \notin DOMAIN tasks
       /\ job[t].pc = "done"
       /\ FilesOf(t) = {}
       /\ u \in DOMAIN tasks
       /\ tasks[u].status = "completed"
       /\ FilesOf(u) = {<<"results", u, "overlay.png">>}

\* the step is a submission that validation rejects
Rejected ==
    /\ response'.code \in {400, 422}
    /\ \/ \E e, s, th \in BOOLEAN :
             ~(e /\ s /\ th) /\ segment_uploaded_image(e, s, th)
       \/ segment_image_from_url(FALSE)

\* C11: a submission rejected for its threshold, its file extension or its
\* size leaves the registry exactly as it was, creates no task id, schedules
\* no job, starts no upload and writes no file; it answers 400 (upload) or
\* 422 (URL).
C11_RejectedBeforeTaskCreated ==
    [][Rejected =>
          /\ tasks' = tasks
          /\ next_id' = next_id
          /\ job' = job
          /\ upload' = upload
          /\ files' = files
          /\ response'.task = 0]_vars

\* An upload rejected with 400 right after a URL submission was accepted: the
\* registry still holds that one queued task, its job still pending.
C11_Witness ==
    /\ response = Resp("segment_uploaded_image", 0, 400)
    /\ next_id = 2
    /\ DOMAIN tasks = {1}
    /\ tasks[1].status = "queued"
    /\ job[1].pc = "pending"

----------------------------------------------------------------------------
\* Properties of the pipeline.

\* extract_patches has returned
Extracted == padded_shape # <<0, 0>>

\* reconstruct_from_patches has returned and the mask is not cropped yet
Reconstructed == stage = "crop"

\* the tiles (by their place in positions) that contain pixel p
Covering(p) ==
    {i \in 1..Len(positions) : p \in TilePixels(positions[i], PATCH_SIZE)}

\* the rows of the bottom edge tiles and the columns of the right edge tiles
InBottomBand(p) ==
    /\ padded_shape[1] % PATCH_SIZE # 0
    /\ p[1] >= padded_shape[1] - PATCH_SIZE

InRightBand(p) ==
    /\ padded_shape[2] % PATCH_SIZE # 0
    /\ p[2] >= padded_shape[2] - PATCH_SIZE

InCornerTile(p) == InBottomBand(p) /\ InRightBand(p)

\* C12: whatever the height and width, a side below the tile size is padded
\* up to it and no other side is changed; every pixel of the padded image is
\* in at least one tile; a pixel in more than one tile is in the bottom edge
\* band, in the right edge band or in the corner tile.
C12_EveryPixelCovered ==
    Extracted =>
       /\ padded_shape = <<Max(image_shape[1], PATCH_SIZE),
                           Max(image_shape[2], PATCH_SIZE)>>
       /\ \A p \in Pixels(padded_shape) :
             /\ Covering(p) # {}
             /\ Cardinality(Covering(p)) > 1 =>
                   InBottomBand(p) \/ InRightBand(p) \/ InCornerTile(p)

\* An image lower than a tile and wider than one, its width no multiple of
\* the tile size: padded, tiled, and some pixel is in two tiles.
C12_Witness ==
    /\ Extracted
    /\ image_shape[1] < PATCH_SIZE
    /\ image_shape[2] > PATCH_SIZE
    /\ image_shape[2] % PATCH_SIZE # 0
    /\ \E p \in Pixels(padded_shape) : Cardinality(Covering(p)) = 2

\* C13: for an image whose height and width are at least the tile size and
\* multiples of it, extract_patches returns (h/tile)*(w/tile) tiles, no two
\* with the same origin, no two sharing a pixel.
C13_ExactGridOnMultiples ==
    (/\ Extracted
     /\ image_shape[1] >= PATCH_SIZE /\ image_shape[1] % PATCH_SIZE = 0
     /\ image_shape[2] >= PATCH_SIZE /\ image_shape[2] % PATCH_SIZE = 0)
    => /\ Len(positions) =
             (image_shape[1] \div PATCH_SIZE) * (image_shape[2] \div PATCH_SIZE)
       /\ \A i, j \in 1..Len(positions) :
             i # j =>
                /\ positions[i] # positions[j]
                /\ TilePixels(positions[i], PATCH_SIZE)
                      \cap TilePixels(positions[j], PATCH_SIZE) = {}

\* An image of two tiles by two tiles exactly.
C13_Witness ==
    /\ Extracted
    /\ image_shape = <<2 * PATCH_SIZE, 2 * PATCH_SIZE>>
    /\ Len(positions) = 4

\* C14: every origin (y, x) that extract_patches returns has
\* 0 <= y <= h - tile and 0 <= x <= w - tile for the padded h and w, and no
\* origin is returned twice.
C14_OriginsInBoundsAndUnique ==
    Extracted =>
       /\ \A i \in 1..Len(positions) :
             /\ 0 <= positions[i][1]
             /\ positions[i][1] <= padded_shape[1] - PATCH_SIZE
             /\ 0 <= positions[i][2]
             /\ positions[i][2] <= padded_shape[2] - PATCH_SIZE
       /\ \A i, j \in 1..Len(positions) : i # j => positions[i] # positions[j]

\* An image smaller than a tile on both sides: one tile, at the origin of
\* the padded image.
C14_Witness ==
    /\ Extracted
    /\ image_shape[1] < PATCH_SIZE
    /\ image_shape[2] < PATCH_SIZE
    /\ padded_shape = <<PATCH_SIZE, PATCH_SIZE>>
    /\ positions = << <<0, 0>> >>

\* every tile predicts class c at every pixel
AllPredict(c) ==
    /\ Len(predicted_masks) = Len(positions)
    /\ \A i \in 1..Len(predicted_masks) :
          \A d \in DOMAIN predicted_masks[i] : predicted_masks[i][d] = c

\* C15: when every tile prediction is one class c, the mask that
\* reconstruct_from_patches returns covers the padded image and is c at every
\* pixel, those in several tiles included.
C15_ConstantPredictionsGiveConstantMask ==
    \A c \in Classes :
       (Reconstructed /\ AllPredict(c)) =>
          /\ DOMAIN full_mask = Pixels(padded_shape)
          /\ \A p \in DOMAIN full_mask : full_mask[p] = c

\* Every tile predicts the highest class, some pixel is in four tiles, and
\* the mask has that class everywhere.
C15_Witness ==
    /\ Reconstructed
    /\ AllPredict(N_CLASSES - 1)
    /\ \E p \in DOMAIN full_mask :
          Cardinality(Covering(p)) = 4 /\ full_mask[p] = N_CLASSES - 1

\* the total of the classes predicted for pixel p by the tiles of I
RECURSIVE SumAt(_, _)
SumAt(p, I) ==
    IF I = {} THEN 0
    ELSE LET i == CHOOSE j \in I : TRUE
         IN  predicted_masks[i][<<p[1] - positions[i][1], p[2] - positions[i][2]>>]
                + SumAt(p, I \ {i})

\* C16 as claimed: the mask value of a pixel is sum / max(count, 1) rounded
\* to a nearest integer (either one when the quotient is a half).
C16_MaskIsRoundedAverage ==
    Reconstructed =>
       \A p \in DOMAIN full_mask :
          LET sum == SumAt(p, Covering(p))
              count == Max(Cardinality(Covering(p)), 1)
              diff == full_mask[p] * count - sum
          IN  2 * (IF diff >= 0 THEN diff ELSE 0 - diff) <= count

\* C16, what the code computes: the mask value of a pixel is
\* sum / max(count, 1) cut to its integer part (the floor), sum being the
\* total of the classes the covering tiles predict for it and count their
\* number.
C16_MaskIsTruncatedAverage ==
    Reconstructed =>
       /\ DOMAIN full_mask = Pixels(padded_shape)
       /\ \A p \in DOMAIN full_mask :
             full_mask[p] =
                SumAt(p, Covering(p)) \div Max(Cardinality(Covering(p)), 1)

\* A pixel in four tiles whose predictions differ and average to a quarter
\* below the next class: the mask has the class below.
C16_Witness ==
    /\ Reconstructed
    /\ \E p \in DOMAIN full_mask :
          /\ Cardinality(Covering(p)) = 4
          /\ SumAt(p, Covering(p)) % 4 = 3
          /\ full_mask[p] = SumAt(p, Covering(p)) \div 4

\* C17: the vegetation percentage (in hundredths of a percent) is between 0
\* and 100 percent, is 0 when no pixel of the mask has a vegetation class and
\* is 100 percent when every pixel has one.
C17_VegetationPercentageInRange ==
    stage = "done" =>
       /\ vegetation_percentage \in 0..10000
       /\ (\A p \in DOMAIN full_mask : full_mask[p] \notin VEGETATION_CLASSES)
             => vegetation_percentage = 0
       /\ (\A p \in DOMAIN full_mask : full_mask[p] \in VEGETATION_CLASSES)
             => vegetation_percentage = 10000

\* A mask of several classes, all of them vegetation: 100 percent.
C17_Witness ==
    /\ stage = "done"
    /\ \A p \in DOMAIN full_mask : full_mask[p] \in VEGETATION_CLASSES
    /\ \E p, q \in DOMAIN full_mask : full_mask[p] # full_mask[q]
    /\ vegetation_percentage = 10000

\* The positions list of section 4.1 for a padded h by w image: the primary
\* tiles row by row, the bottom row, the right column, the corner.
ExpectedPositions(h, w) ==
    LET nh == h \div PATCH_SIZE
        nw == w \div PATCH_SIZE
    IN  [k \in 1..(nh * nw + nw + nh + 1) |->
            IF k <= nh * nw
            THEN <<((k - 1) \div nw) * PATCH_SIZE, ((k - 1) % nw) * PATCH_SIZE>>
            ELSE IF k <= nh * nw + nw
            THEN <<h - PATCH_SIZE, (k - nh * nw - 1) * PATCH_SIZE>>
            ELSE IF k <= nh * nw + nw + nh
            THEN <<(k - nh * nw - nw - 1) * PATCH_SIZE, w - PATCH_SIZE>>
            ELSE <<h - PATCH_SIZE, w - PATCH_SIZE>>]

\* ceil(n / PATCH_SIZE)
CeilTiles(n) == (n + PATCH_SIZE - 1) \div PATCH_SIZE

\* C19: when the padded height and width are both no multiples of the tile
\* size, the positions are, in this order, the floor(h/t)*floor(w/t) primary
\* tiles row by row, floor(w/t) bottom tiles at y = h - t, floor(h/t) right
\* tiles at x = w - t and the corner tile, ceil(h/t)*ceil(w/t) in all (4 for
\* an image between one and two tiles on both sides); a second call on the
\* same image returns the same positions and padded shape.
C19_OrderedEdgeTiling ==
    /\ [](( /\ Extracted
            /\ padded_shape[1] % PATCH_SIZE # 0
            /\ padded_shape[2] % PATCH_SIZE # 0)
          => /\ positions = ExpectedPositions(padded_shape[1], padded_shape[2])
             /\ Len(positions) =
                   CeilTiles(padded_shape[1]) * CeilTiles(padded_shape[2])
             /\ (padded_shape[1] < 2 * PATCH_SIZE /\ padded_shape[2] < 2 * PATCH_SIZE)
                   => Len(positions) = 4)
    /\ [][(Extracted /\ segment_image_with_patches_extract)
             => /\ positions' = positions
                /\ padded_shape' = padded_shape]_vars

\* The second call on an image of more than two tiles on both sides, no side
\* a multiple of the tile size, has returned: nine tiles, the corner last.
C19_Witness ==
    /\ stage = "predict"
    /\ full_mask # << >>
    /\ padded_shape[1] % PATCH_SIZE # 0
    /\ padded_shape[2] % PATCH_SIZE # 0
    /\ Len(positions) = 9
    /\ positions[9] = <<padded_shape[1] - PATCH_SIZE, padded_shape[2] - PATCH_SIZE>>

----------------------------------------------------------------------------
\* Properties of the lifecycle, continued.

\* the jobs that are inside segment_image_with_patches (model.predict)
InInference == {t \in TaskIds : job[t].pc = "file_segment"}

\* C18: at most one job is inside the inference call at any time, and that
\* job is the one that holds the event loop.
C18_OneInferenceAtATime ==
    /\ Cardinality(InInference) <= 1
    /\ InInference \subseteq running

\* One job is in the inference call while the job of another task is
\* scheduled and waits for the loop.
C18_Witness ==
    \E t, u \in TaskIds :
       /\ t # u
       /\ job[t].pc = "file_segment"
       /\ job[u].pc = "pending"

\* C20 as claimed: a task that has no record any more (it was deleted with
\* success) has no file in uploads or results, in any later state.
C20_NoFilesWithoutRecord ==
    \A t \in TaskIds :
       (t < next_id /\ t \notin DOMAIN tasks) => FilesOf(t) = {}

====
